---- MODULE Spec2Model ----
(***************************************************************************)
(* Verification model of the DepthWeaver scene component                   *)
(* (src/src/components/depth-weaver-scene.tsx).                            *)
(*                                                                         *)
(* One React component instance is modelled: its props, its refs, the      *)
(* closures its effects capture, the listeners it registers, the promises  *)
(* and animation-frame callbacks it leaves pending, and the three.js       *)
(* objects it creates.  Every action is one commit of the component        *)
(* (a prop change followed by the effects whose dependencies changed, in   *)
(* declaration order) or one host callback (promise continuation, DOM      *)
(* event listener, animation-frame callback).                               *)
(*                                                                         *)
(* Angles are integers in units of half a microradian; pi/180 is taken as  *)
(* 17453 microradians.  Resources are tuples <<kind, instance, n>>.        *)
(***************************************************************************)
EXTENDS Integers, Sequences, FiniteSets, TLC

\* ---------------------------------------------------------------- bounds
MaxInst == 2          \* scene instances bound during the component's life
MaxPerm == 1          \* orientation-permission requests pending at once
MaxExports == 1       \* exports started during the component's life
MaxGeoms == 1         \* geometry replacements per mesh
MaxCams == 1          \* camera rebuilds by a camera-kind change
MaxMsgs == 2          \* messages the depth worker receives

\* ------------------------------------------------------------- input sets
DetailValues == {1, 2}
DepthValues == {5, 7}
BlurValues == {0, 1}
OffsetValues == {0, 1}
ModeValues == {"blur", "fill"}
LimitValues == {5, 10}
DistanceValues == {2, 3}
ZoomValues == {1, 2}
CameraTypes == {"perspective", "orthographic"}
PointerPoints == {<<0, 0>>, <<50, 20>>}              \* clientX, clientY
TiltReadings == {<<0, 10>>, <<10, 10>>, <<40, 20>>}  \* beta, gamma in degrees

ImgW == 2              \* width of a colour image drawn for the shader, in texels
ImgH == 2              \* its height
DepthSizes == {<<1, 1>>, <<2, 2>>, <<3, 2>>}   \* width and height of a depth image
ColorLevels == {10, 200}       \* one colour channel, 0..255
DepthLevels == {0, 2, 255}     \* red channel of the depth map, 0..255
ShaderBlurValues == {0, 1}     \* uBlurIntensity
ShaderOffsetValues == {-1, 0, 1}  \* uBlurOffset

ModelNames == {"A", "B", "pre-check"}   \* payload.model of an 'init' message

None == 0             \* an undefined ref

\* ------------------------------------------------------------- variables
VARIABLES
  mounted,            \* the component is mounted
  props,              \* the props of the last render
  cur,                \* scene instance whose effect is live (None: no cleanup registered)
  binds,              \* number of scene instances bound so far
  captured,           \* per instance: the props closed over by its scene effect
  isCancelled,        \* per instance: the isCancelled flag of its effect closure
  load,               \* per instance: state of its Promise.all texture load
  isLoading,          \* useState isLoading
  rendererRef, sceneRef, cameraRef, meshRef,
  colorTextureRef, depthTextureRef,
  liveMaterialRef, bakingMaterialRef, bakedTextureRef,
  maxAngleRef, isDraggingRef, previousPointerPosition,
  initialOrientationRef, renderRequestedRef,
  rafPending,         \* animation-frame callbacks scheduled and not yet run
  meshes,             \* per created mesh: geometry (its segments, the z of its
                      \* vertices), rotation, membership in its scene
  bakingUniforms,     \* per created baking material: its uniforms
  liveUniforms,       \* per created live material: its uniforms
  bakedContent,       \* per created baked render target: what the last bake wrote
  sceneState,         \* per created scene/renderer: background, clear colour and
                      \* alpha, bound render target
  disposeCalls,       \* per created resource: number of dispose() calls received
  alloc,              \* resources that currently hold GPU memory
  submitted,          \* GPU command submitted by the last step
  downListener,       \* instance whose onPointerDown is registered on the mount node
  moveListener,       \* instance whose onPointerMove/onPointerUp are registered on window
  orientationListener,\* handleDeviceOrientation is registered on window
  resizeListener,     \* instance whose handleResize is registered on window
  permPending,        \* requestPermission() promises not yet resolved
  hasRequestPermission, \* the platform defines DeviceOrientationEvent.requestPermission
  exp,                \* the export in progress (async handleExport)
  worker              \* the depth worker: the statics of DepthEstimationPipeline,
                      \* the onmessage calls begun and the messages posted

propVars == <<mounted, props>>
instVars == <<cur, binds, captured, isCancelled, load, isLoading>>
sceneRefs == <<rendererRef, sceneRef, cameraRef, meshRef, colorTextureRef,
               depthTextureRef, liveMaterialRef, bakingMaterialRef, bakedTextureRef>>
inputRefs == <<maxAngleRef, isDraggingRef, previousPointerPosition, initialOrientationRef>>
rafVars == <<renderRequestedRef, rafPending>>
objVars == <<meshes, bakingUniforms, liveUniforms, bakedContent, sceneState>>
gpuVars == <<disposeCalls, alloc>>
hostVars == <<hasRequestPermission, worker>>
listenerVars == <<downListener, moveListener, orientationListener, resizeListener,
                  permPending, hostVars>>
componentVars == <<propVars, instVars, sceneRefs, inputRefs, rafVars, objVars, gpuVars,
                   submitted, downListener, moveListener, orientationListener,
                   resizeListener, permPending, hasRequestPermission, exp>>
vars == <<propVars, instVars, sceneRefs, inputRefs, rafVars, objVars, gpuVars,
          submitted, listenerVars, exp>>

\* --------------------------------------------------------------- helpers
Max(a, b) == IF a >= b THEN a ELSE b

Min(a, b) == IF a <= b THEN a ELSE b

clampLowerOnly(value, lo, hi) == Max(lo, value)

\* THREE.MathUtils.clamp(value, min, max) = Math.max(min, Math.min(max, value))
clamp(value, lo, hi) == Max(lo, Min(hi, value))

\* THREE.MathUtils.degToRad, argument in half degrees, result in half microradians
degToRad(halfDegrees) == halfDegrees * 17453

\* deltaX * 0.005 rad in half microradians
DragAngle(delta) == delta * 10000

R(kind, i) == <<kind, i, 0>>

Geom(i, n) == <<"geom", i, n>>

Quad(i) == <<"quad", i, 0>>

TempRT(i, n) == <<"tempRT", i, n>>

InstOf(r) == r[2]

KindOf(r) == r[1]

NoCamera == [id |-> 0, type |-> "none", z |-> 0, zoom |-> 0]

NoCmd == [op |-> "none", renderer |-> None, uses |-> {}]

Pixels == (1..ImgW) \X (1..ImgH)

\* a decoded image: its size and one channel per texel
UniformImage(w, h, v) ==
  [width |-> w, height |-> h, data |-> [p \in (1..w) \X (1..h) |-> v]]

\* the texels of a render target with the resolution of image img
TargetPixels(img) == (1..img.width) \X (1..img.height)

NaN == -999999        \* the result of arithmetic on undefined

Discard == -2         \* a fragment that executed `discard`

ClearPixel == -1      \* a texel of a cleared render target

BlankTarget == <<>>     \* no target, or a target nothing was rendered into

NoContent == [color |-> None, depth |-> None, intensity |-> 0, offset |-> 0, mode |-> -1,
              pixels |-> BlankTarget]

NoOrientation == [null |-> TRUE, beta |-> 0, gamma |-> 0]

NoRes == <<"none", 0, 0>>

IdleExport == [pc |-> "idle", n |-> 0, mesh |-> None, renderer |-> None,
               depthMultiplier |-> 0, result |-> "none", source |-> NoRes,
               content |-> NoContent, depthMap |-> None, cloneZ |-> <<>>]

\* new THREE.PerspectiveCamera / OrthographicCamera as the scene and camera effects build it
NewCamera(id, p) ==
  IF p.cameraType = "perspective"
    THEN [id |-> id, type |-> "PerspectiveCamera", z |-> p.cameraDistance, zoom |-> 1]
    ELSE [id |-> id, type |-> "OrthographicCamera", z |-> 6, zoom |-> p.orthographicZoom]

Background(p) == IF p.backgroundMode = "solid" THEN p.backgroundColor ELSE "null"

ClearAlpha(p) == IF p.backgroundMode = "blur" THEN 0 ELSE 1

\* a new Scene and a new WebGLRenderer({alpha: true}) after the scene effect
\* set scene.background and the clear alpha: the clear colour is the
\* renderer's default, the bound render target is the canvas
NewSceneState(p) ==
  [background |-> Background(p), clearAlpha |-> ClearAlpha(p),
   clearColor |-> "#000000", target |-> "canvas"]

\* renderer.setClearColor('#00ff00'); renderer.setClearAlpha(1);
\* renderer.setRenderTarget(tempRenderTarget)
ExportClear(ss, r) ==
  [ss EXCEPT ![r].clearColor = "#00ff00", ![r].clearAlpha = 1, ![r].target = "temp"]

RestoreClearColorOnly(ss, r, color, alpha) ==
  [ss EXCEPT ![r].target = "canvas", ![r].clearColor = color, ![r].clearAlpha = 1]

\* renderer.setRenderTarget(null); renderer.setClearColor(originalClearColor),
\* which sets the alpha to its default 1; renderer.setClearAlpha(originalClearAlpha)
RestoreClear(ss, r, color, alpha) ==
  [ss EXCEPT ![r].target = "canvas", ![r].clearColor = color, ![r].clearAlpha = alpha]

requestRenderAlways ==
  /\ renderRequestedRef' = TRUE
  /\ rafPending' = rafPending + 1

\* requestRenderIfNotRequested
requestRenderIfNotRequested ==
  /\ renderRequestedRef' = TRUE
  /\ rafPending' = IF renderRequestedRef THEN rafPending ELSE rafPending + 1

\* resource.dispose() on every resource of S
DisposeAlloc(a, S) == a \ S

DisposeCount(d, S) == [r \in DOMAIN d |-> IF r \in S THEN d[r] + 1 ELSE d[r]]

Create(d, S) == d @@ [r \in S |-> 0]

\* --------------------------------------------------- bakingFragmentShader
\* Colours and depths are bytes; gradient, smoothstep and the tap weights are
\* in thousandths.  (x, y) is a texel of the render target, whose resolution
\* uResolution is that of the colour image res.
\* GLSL clamp(x, minVal, maxVal) = min(max(x, minVal), maxVal)
clampGLSL(x, minVal, maxVal) == Min(Max(x, minVal), maxVal)

\* ClampToEdgeWrapping: texel index i on an axis of n texels
ClampToEdge(i, n) == Max(1, Min(n, i))

\* texture2D with ClampToEdgeWrapping at the centre of target texel (x, y):
\* the texel of tex that holds that uv
texture2D(tex, res, x, y) ==
  tex.data[<<ClampToEdge((((2 * x - 1) * tex.width) \div (2 * res.width)) + 1, tex.width),
             ClampToEdge((((2 * y - 1) * tex.height) \div (2 * res.height)) + 1,
                         tex.height)>>]

getDepth(dep, res, x, y) == texture2D(dep, res, x, y)

\* the integer square root of n, known to lie in lo..hi
RECURSIVE IsqrtIn(_, _, _)
IsqrtIn(n, lo, hi) ==
  IF lo = hi THEN lo
  ELSE LET mid == (lo + hi + 1) \div 2
       IN IF mid * mid <= n THEN IsqrtIn(n, mid, hi) ELSE IsqrtIn(n, lo, mid - 1)

Isqrt(n) == IF n = 0 THEN 0 ELSE IsqrtIn(n, 0, 511)

smoothstepSaturated(edge0, edge1, x) == 1000

\* GLSL smoothstep(edge0, edge1, x), all in thousandths
smoothstep(edge0, edge1, x) ==
  LET t == clampGLSL(((x - edge0) * 1000) \div (edge1 - edge0), 0, 1000)
  IN (t * t * (3000 - 2 * t)) \div 1000000

\* smoothstep(0.0, 0.05, sqrt(dx*dx + dy*dy))
Gradient(dep, res, x, y) ==
  LET dx == getDepth(dep, res, x + 1, y) - getDepth(dep, res, x - 1, y)
      dy == getDepth(dep, res, x, y + 1) - getDepth(dep, res, x, y - 1)
  IN smoothstep(0, 50, (Isqrt(dx * dx + dy * dy) * 1000) \div 255)

\* exp(-(x*x + y*y) / 32) in thousandths, for x, y in -4..4
ExpWeightTable ==
  (0 :> 1000) @@ (1 :> 969) @@ (2 :> 939) @@ (4 :> 882) @@ (5 :> 855) @@ (8 :> 779)
    @@ (9 :> 755) @@ (10 :> 732) @@ (13 :> 666) @@ (16 :> 607) @@ (17 :> 588)
    @@ (18 :> 570) @@ (20 :> 535) @@ (25 :> 458) @@ (32 :> 368)

ExpWeight(r2) == ExpWeightTable[r2]

sign(v) == IF v > 0 THEN 1 ELSE IF v < 0 THEN -1 ELSE 0

TapOffsetUnscaled(t, blurStrength) == t

\* float(x) * pixelSize * blurStrength, in texels
TapOffset(t, blurStrength) == (t * blurStrength) \div 1000

\* one tap of the blur branch, at loop indices (tx, ty) around texel (x, y):
\* the sampled colour and its weight
Tap(tex, dep, blurStrength, uBlurOffset, x, y, tx, ty) ==
  LET sx == x + TapOffset(tx, blurStrength)
      sy == y + TapOffset(ty, blurStrength)
      depthDiff == getDepth(dep, tex, sx, sy) - getDepth(dep, tex, x, y)
      depthWeight == 1 - uBlurOffset * sign(depthDiff)
  IN [color |-> texture2D(tex, tex, sx, sy),
      weight |-> ExpWeight(tx * tx + ty * ty) * clampGLSL(depthWeight, 0, 1)]

\* what one tap adds to blurredColor (part "color") or to totalWeight
TapTerm(tex, dep, blurStrength, uBlurOffset, x, y, tx, ty, part) ==
  LET t == Tap(tex, dep, blurStrength, uBlurOffset, x, y, tx, ty)
  IN IF part = "color" THEN t.color * t.weight ELSE t.weight

\* the inner loop, y = ty..4, for one x = tx
RECURSIVE ColumnSum(_, _, _, _, _, _, _, _, _)
ColumnSum(tex, dep, blurStrength, uBlurOffset, x, y, tx, ty, part) ==
  IF ty > 4 THEN 0
  ELSE TapTerm(tex, dep, blurStrength, uBlurOffset, x, y, tx, ty, part)
         + ColumnSum(tex, dep, blurStrength, uBlurOffset, x, y, tx, ty + 1, part)

\* the outer loop, x = tx..4
RECURSIVE TapSum(_, _, _, _, _, _, _, _)
TapSum(tex, dep, blurStrength, uBlurOffset, x, y, tx, part) ==
  IF tx > 4 THEN 0
  ELSE ColumnSum(tex, dep, blurStrength, uBlurOffset, x, y, tx, -4, part)
         + TapSum(tex, dep, blurStrength, uBlurOffset, x, y, tx + 1, part)

\* the weighted sum of the sampled colours and the sum of the weights over
\* all 9 x 9 taps around texel (x, y)
BlurTaps(tex, dep, blurStrength, uBlurOffset, x, y) ==
  [blurredColor |-> TapSum(tex, dep, blurStrength, uBlurOffset, x, y, -4, "color"),
   totalWeight |-> TapSum(tex, dep, blurStrength, uBlurOffset, x, y, -4, "weight")]

\* blurredColor / totalWeight rounded to a byte, or the source colour when no
\* tap has weight
Normalised(blurredColor, totalWeight, source) ==
  IF totalWeight > 0
    THEN (2 * blurredColor + totalWeight) \div (2 * totalWeight)
    ELSE source

\* main() of the baking fragment shader at texel (x, y): the byte written to
\* the target, or Discard
bakingFragmentShader(tex, dep, uBlurIntensity, uBlurOffset, uRenderMode, x, y) ==
  LET gradient == Gradient(dep, tex, x, y)
  IN IF gradient > 100
       THEN IF uRenderMode = 0
              THEN LET taps == BlurTaps(tex, dep, gradient * uBlurIntensity,
                                        uBlurOffset, x, y)
                   IN Normalised(taps.blurredColor, taps.totalWeight,
                                 texture2D(tex, tex, x, y))
              ELSE Discard
       ELSE texture2D(tex, tex, x, y)

\* renderer.render into a target: autoClear clears it, then every fragment
\* that is not discarded replaces its texel
RenderTarget(prev, frags) ==
  [p \in DOMAIN frags |-> IF frags[p] = Discard THEN ClearPixel ELSE frags[p]]

\* ------------------------------------------------------------ depth worker
\* a pipeline object, by the model it was loaded for and the call that loaded it
NoPipeline == [model |-> "none", by |-> 0]

\* the statics of DepthEstimationPipeline as declared, no call begun and
\* nothing posted; gpu: self.navigator.gpu is defined
NewWorker(gpu) ==
  [gpu |-> gpu, instance |-> NoPipeline, model |-> "null", device |-> "null",
   initialized |-> FALSE, device_checked |-> FALSE, n |-> 0, tasks |-> <<>>,
   posted |-> {}]

\* self.postMessage({ type, payload }) by call t
Post(w, t, type, payload) ==
  [w EXCEPT !.posted = @ \cup {[task |-> t, type |-> type, payload |-> payload]}]

SetPc(w, t, pc) == [w EXCEPT !.tasks[t].pc = pc]

\* the catch block of onmessage
onmessageCatch(w, t) == SetPc(Post(w, t, "error", "message"), t, "done")

\* onmessage of call t after `await getInstance(...)` returned detector
onmessageResume(w, t, detector) ==
  IF w.tasks[t].type = "init"
    THEN SetPc(IF w.tasks[t].model # "pre-check"
                 THEN Post(w, t, "status", "ready")
                 ELSE w,
               t, "done")
    ELSE IF detector = NoPipeline \/ ~w.initialized
           THEN onmessageCatch(w, t)
           ELSE [SetPc(w, t, "infer") EXCEPT !.tasks[t].detector = detector]

\* getInstance of call t from the pre-check test to its return or to the
\* await of pipeline()
getInstanceLoad(w, t) ==
  LET model == w.tasks[t].model
  IN IF model = "pre-check"
       THEN onmessageResume(w, t, NoPipeline)
       ELSE IF w.instance = NoPipeline \/ w.model # model
              THEN SetPc([w EXCEPT !.model = model, !.initialized = FALSE], t, "load")
              ELSE onmessageResume(w, t, w.instance)

\* the end of the device check
DeviceChecked(w, t, device) ==
  [Post(w, t, "device-info", device) EXCEPT !.device = device, !.device_checked = TRUE]

\* getInstance of call t from its entry to its first await or to its return
getInstance(w, t) ==
  IF ~w.device_checked
    THEN IF w.gpu
           THEN SetPc(w, t, "device")
           ELSE getInstanceLoad(DeviceChecked(w, t, "wasm"), t)
    ELSE getInstanceLoad(w, t)

\* self.onmessage receives { type, payload }: the handler runs to its first
\* pending await or to its end.  A 'generate' passes the recorded model name.
onmessage(type, model) ==
  /\ worker.n < MaxMsgs
  /\ LET t == worker.n + 1
         w1 == [worker EXCEPT
                  !.n = t,
                  !.tasks = @ @@ (t :> [type |-> type,
                                        model |-> IF type = "init" THEN model
                                                  ELSE worker.model,
                                        pc |-> "start", detector |-> NoPipeline])]
         w2 == IF type = "generate" THEN Post(w1, t, "status", "generating") ELSE w1
     IN worker' = getInstance(w2, t)
  /\ UNCHANGED componentVars

\* navigator.gpu.requestAdapter() of call t settles, with an adapter or
\* with null or an exception
requestAdapterSettled(t, adapter) ==
  /\ t \in DOMAIN worker.tasks
  /\ worker.tasks[t].pc = "device"
  /\ worker' = getInstanceLoad(
                 DeviceChecked(worker, t, IF adapter THEN "webgpu" ELSE "wasm"), t)
  /\ UNCHANGED componentVars

\* pipeline(task, model, ...) of call t settles
pipelineSettled(t, ok) ==
  /\ t \in DOMAIN worker.tasks
  /\ worker.tasks[t].pc = "load"
  /\ IF ok
       THEN LET w1 == [worker EXCEPT
                         !.instance = [model |-> worker.tasks[t].model, by |-> t],
                         !.initialized = TRUE]
            IN worker' = onmessageResume(w1, t, w1.instance)
       ELSE worker' = onmessageCatch(
                        [worker EXCEPT !.instance = NoPipeline, !.initialized = FALSE], t)
  /\ UNCHANGED componentVars

\* detector(payload.imageUrl) of call t settles
detectorSettled(t, ok) ==
  /\ t \in DOMAIN worker.tasks
  /\ worker.tasks[t].pc = "infer"
  /\ worker' = (IF ok THEN SetPc(Post(worker, t, "result", "depth"), t, "done")
                ELSE onmessageCatch(worker, t))
  /\ UNCHANGED componentVars

\* ------------------------------------------------- export displacement
\* the ImageData of the depth image: RGBA bytes, row by row; the depth image
\* is grey, so the three colour channels agree
getDepthDataFromImage(dep) ==
  [width |-> dep.width, height |-> dep.height,
   data |-> [k \in 0..(4 * dep.width * dep.height - 1) |->
               IF k % 4 = 3 THEN 255
               ELSE dep.data[<<((k \div 4) % dep.width) + 1,
                               ((k \div 4) \div dep.width) + 1>>]]]

\* the vertices of PlaneGeometry(w, h, seg, seg): column ix and row iy, with
\* uv = (ix / seg, 1 - iy / seg)
Vertices(seg) == (0..seg) \X (0..seg)

PixelIndexScaled(depthData, seg, ix, iy) ==
  (((iy * depthData.height) \div seg) * depthData.width
     + ((ix * depthData.width) \div seg)) * 4

\* pixelIndex of the loop body for vertex (ix, iy)
PixelIndex(depthData, seg, ix, iy) ==
  (((iy * (depthData.height - 1)) \div seg) * depthData.width
     + ((ix * (depthData.width - 1)) \div seg)) * 4

\* depthData.data[pixelIndex] / 255.0 * depthMultiplier in thousandths; a
\* read outside the array is undefined and the product NaN
Displacement(depthData, pixelIndex, depthMultiplier) ==
  IF pixelIndex \in DOMAIN depthData.data
    THEN (depthData.data[pixelIndex] * depthMultiplier * 1000) \div 255
    ELSE NaN

\* the z of every vertex of the cloned geometry after the loop, in
\* thousandths; z is the z of the vertices of the live geometry
DisplacedZ(depthData, seg, z, depthMultiplier) ==
  [vtx \in Vertices(seg) |->
     LET displacement == Displacement(depthData,
                                      PixelIndex(depthData, seg, vtx[1], vtx[2]),
                                      depthMultiplier)
     IN IF displacement = NaN THEN NaN ELSE 1000 * z + displacement]

\* ----------------------------------------------------------- runBakePass
runBakePassReady(rend, mat, rt) == rend # None /\ mat # None /\ rt # None

runBakePassUses(mat, rt, bu) ==
  {R("bakingMat", mat), R("bakedRT", rt),
   R("colorTex", bu[mat].uTexture), R("depthTex", bu[mat].uDepthMap)}

\* the bake renders the quad (allocating everything it touches) and then
\* disposes the quad geometry
runBakePassAlloc(a, rend, mat, rt, bu) ==
  DisposeAlloc(a \cup runBakePassUses(mat, rt, bu) \cup {Quad(rend)}, {Quad(rend)})

\* the fragments of one pass of the baking material over the full-screen quad;
\* texture i carries the image its instance was bound with
Fragments(u) ==
  [p \in TargetPixels(captured[u.uTexture].image) |->
     bakingFragmentShader(captured[u.uTexture].image, captured[u.uDepthMap].depthMap,
                          u.uBlurIntensity, u.uBlurOffset, u.uRenderMode, p[1], p[2])]

\* a bake pass with uniforms u into a target that holds prev
BakeOnto(prev, u) ==
  [color |-> u.uTexture, depth |-> u.uDepthMap, intensity |-> u.uBlurIntensity,
   offset |-> u.uBlurOffset, mode |-> u.uRenderMode,
   pixels |-> RenderTarget(prev, Fragments(u))]

\* a bake pass into a fresh target
BakeOutput(u) == BakeOnto(BlankTarget, u)

runBakePassContentSkipped(bc, mat, rt, bu) == bc

runBakePassContent(bc, mat, rt, bu) ==
  [bc EXCEPT ![rt] = BakeOnto(bc[rt].pixels, bu[mat])]

runBakePassCmd(rend, mat, rt, bu) ==
  [op |-> "bake", renderer |-> rend, uses |-> runBakePassUses(mat, rt, bu)]

\* --------------------------------------------------- scene effect cleanup
CleanupDisposed ==
  (IF colorTextureRef # None THEN {R("colorTex", colorTextureRef)} ELSE {})
  \cup (IF depthTextureRef # None THEN {R("depthTex", depthTextureRef)} ELSE {})
  \cup (IF bakedTextureRef # None THEN {R("bakedRT", bakedTextureRef)} ELSE {})
  \cup (IF bakingMaterialRef # None THEN {R("bakingMat", bakingMaterialRef)} ELSE {})
  \cup (IF meshRef # None
          THEN {Geom(meshRef, meshes[meshRef].geom)}
               \cup (IF liveMaterialRef # None
                       THEN {R("liveMat", liveMaterialRef)} ELSE {})
          ELSE {})
  \cup {R("renderer", cur)}

\* the calls of the cleanup in the order of the source
CleanupSteps ==
  <<"colorTexture.dispose", "depthTexture.dispose", "bakedTexture.dispose",
    "bakingMaterial.dispose", "geometry.dispose", "liveMaterial.dispose",
    "scene.remove", "renderer.dispose">>

Before(a, b) ==
  \E i, j \in DOMAIN CleanupSteps :
    CleanupSteps[i] = a /\ CleanupSteps[j] = b /\ i < j

\* the mesh leaves the scene; disposedInScene records that its geometry or
\* its material was disposed while it was still a child of the scene
CleanupMeshes ==
  IF meshRef # None
    THEN [meshes EXCEPT ![meshRef].inScene = FALSE,
                        ![meshRef].disposedInScene =
                           \/ Before("geometry.dispose", "scene.remove")
                           \/ Before("liveMaterial.dispose", "scene.remove")]
    ELSE meshes


\* ------------------------------------------------------------------ Init
\* the props the page passes on first render (src/src/app/page.tsx useState defaults)
InitProps(sensor) ==
  [depthMultiplier |-> 7, cameraDistance |-> 2, orthographicZoom |-> 1,
   meshDetail |-> 1, blurIntensity |-> 1, blurOffset |-> 1, viewAngleLimit |-> 10,
   useSensor |-> sensor, backgroundMode |-> "blur", backgroundColor |-> "transparent",
   renderMode |-> "blur", cameraType |-> "perspective",
   image |-> UniformImage(1, 1, 200), depthMap |-> UniformImage(1, 1, 255)]

\* the state after the first commit: every effect has run once, in declaration order
InitHost(p, permission, gpu) ==
  /\ worker = NewWorker(gpu)
  /\ mounted = TRUE
  /\ props = p
  /\ hasRequestPermission = permission
  /\ cur = 1
  /\ binds = 1
  /\ captured = (1 :> props)
  /\ isCancelled = (1 :> FALSE)
  /\ load = (1 :> "pending")
  /\ isLoading = TRUE
  /\ rendererRef = 1
  /\ sceneRef = 1
  /\ cameraRef = NewCamera(1, props)
  /\ meshRef = None
  /\ colorTextureRef = None
  /\ depthTextureRef = None
  /\ liveMaterialRef = None
  /\ bakingMaterialRef = None
  /\ bakedTextureRef = None
  /\ maxAngleRef = degToRad(2 * props.viewAngleLimit)
  /\ isDraggingRef = FALSE
  /\ previousPointerPosition = [x |-> 0, y |-> 0]
  /\ initialOrientationRef = NoOrientation
  /\ renderRequestedRef = TRUE
  /\ rafPending = 1
  /\ meshes = <<>>
  /\ bakingUniforms = <<>>
  /\ liveUniforms = <<>>
  /\ bakedContent = <<>>
  /\ sceneState = (1 :> NewSceneState(props))
  /\ disposeCalls = Create(<<>>, {R("renderer", 1), R("colorTex", 1), R("depthTex", 1)})
  /\ alloc = {R("renderer", 1)}
  /\ submitted = NoCmd
  /\ downListener = 1
  /\ moveListener = None
  /\ resizeListener = 1
  /\ orientationListener = (props.useSensor /\ ~hasRequestPermission)
  /\ permPending = IF props.useSensor /\ hasRequestPermission THEN 1 ELSE 0
  /\ exp = IdleExport

InitState(p, permission) == InitHost(p, permission, FALSE)

InitWith(sensor, permission) == InitState(InitProps(sensor), permission)

\* the worker on a platform with or without navigator.gpu
InitWorker == \E gpu \in BOOLEAN : InitHost(InitProps(FALSE), FALSE, gpu)

\* mounted with sensor-follow off
Init == InitWith(FALSE, FALSE)

\* colour images with a dark first texel, a bright last one and the other two alike
ColorImages ==
  {[width |-> ImgW, height |-> ImgH, data |-> img] : img \in
     {img \in [Pixels -> ColorLevels] :
        /\ img[<<1, 1>>] = 10
        /\ img[<<ImgW, ImgH>>] = 200
        /\ img[<<1, ImgH>>] = img[<<ImgW, 1>>]}}

\* depth maps with a far first texel and a last column at one depth, far or
\* near; only the texel below the first takes the intermediate level
DepthMaps ==
  {[width |-> ImgW, height |-> ImgH, data |-> dep] : dep \in
     {dep \in [Pixels -> DepthLevels] :
        /\ dep[<<1, 1>>] = 0
        /\ dep[<<ImgW, 1>>] \in {0, 255}
        /\ dep[<<ImgW, ImgH>>] = dep[<<ImgW, 1>>]}}

\* mounted with one of the colour images and one of the depth maps
InitShader ==
  \E img \in ColorImages, dep \in DepthMaps :
    InitState([InitProps(FALSE) EXCEPT !.image = img, !.depthMap = dep], FALSE)

\* mounted with a depth image of any of the sizes that has the same value at
\* every pixel
InitDisplace ==
  \E size \in DepthSizes, v \in DepthLevels :
    InitState([InitProps(FALSE) EXCEPT !.depthMap = UniformImage(size[1], size[2], v)],
              FALSE)

\* mounted with sensor-follow on or off, on a platform with or without
\* DeviceOrientationEvent.requestPermission
InitInput == \E sensor \in BOOLEAN, permission \in BOOLEAN : InitWith(sensor, permission)

\* ------------------------------------------ scene effect (deps image, depthMap)
\* A commit that changes the image/depthMap props: the cleanup of the live
\* scene effect runs, then the effect body binds the next instance unless the
\* new inputs are empty.
SetImage(empty) ==
  /\ mounted
  /\ ~(cur = None /\ empty)
  /\ ~empty => binds < MaxInst
  /\ LET clean == cur # None
         S == IF clean THEN CleanupDisposed ELSE {}
         i == binds + 1
         cancelled1 == IF clean THEN [isCancelled EXCEPT ![cur] = TRUE] ELSE isCancelled
         alloc1 == DisposeAlloc(alloc, S)
         calls1 == DisposeCount(disposeCalls, S)
     IN /\ meshes' = (IF clean THEN CleanupMeshes ELSE meshes)
        /\ meshRef' = (IF clean THEN None ELSE meshRef)
        /\ liveMaterialRef' = (IF clean THEN None ELSE liveMaterialRef)
        /\ moveListener' = None
        /\ IF empty
             THEN /\ cur' = None
                  /\ isCancelled' = cancelled1
                  /\ rendererRef' = None
                  /\ alloc' = alloc1
                  /\ disposeCalls' = calls1
                  /\ downListener' = None
                  /\ resizeListener' = None
                  /\ UNCHANGED <<binds, captured, load, isLoading, sceneRef, cameraRef,
                                 sceneState>>
             ELSE /\ cur' = i
                  /\ binds' = i
                  /\ captured' = captured @@ (i :> props)
                  /\ isCancelled' = cancelled1 @@ (i :> FALSE)
                  /\ load' = load @@ (i :> "pending")
                  /\ isLoading' = TRUE
                  /\ rendererRef' = i
                  /\ sceneRef' = i
                  /\ cameraRef' = NewCamera(cameraRef.id + 1, props)
                  /\ sceneState' = sceneState @@ (i :> NewSceneState(props))
                  /\ disposeCalls' = Create(calls1,
                       {R("renderer", i), R("colorTex", i), R("depthTex", i)})
                  /\ alloc' = alloc1 \cup {R("renderer", i)}
                  /\ downListener' = i
                  /\ resizeListener' = i
  /\ submitted' = NoCmd
  /\ UNCHANGED <<propVars, colorTextureRef, depthTextureRef, bakingMaterialRef,
                 bakedTextureRef, inputRefs, rafVars, bakingUniforms, liveUniforms,
                 bakedContent, orientationListener, permPending, hostVars,
                 exp>>

\* the component is removed: every live effect's cleanup runs
Unmount ==
  /\ mounted
  /\ mounted' = FALSE
  /\ orientationListener' = FALSE
  /\ LET clean == cur # None
         S == IF clean THEN CleanupDisposed ELSE {}
     IN /\ meshes' = (IF clean THEN CleanupMeshes ELSE meshes)
        /\ meshRef' = (IF clean THEN None ELSE meshRef)
        /\ liveMaterialRef' = (IF clean THEN None ELSE liveMaterialRef)
        /\ rendererRef' = (IF clean THEN None ELSE rendererRef)
        /\ isCancelled' = (IF clean THEN [isCancelled EXCEPT ![cur] = TRUE] ELSE isCancelled)
        /\ alloc' = DisposeAlloc(alloc, S)
        /\ disposeCalls' = DisposeCount(disposeCalls, S)
  /\ cur' = None
  /\ downListener' = None
  /\ moveListener' = None
  /\ resizeListener' = None
  /\ submitted' = NoCmd
  /\ UNCHANGED <<props, binds, captured, load, isLoading, sceneRef, cameraRef,
                 colorTextureRef, depthTextureRef, bakingMaterialRef, bakedTextureRef,
                 inputRefs, rafVars, bakingUniforms, liveUniforms, bakedContent,
                 sceneState, permPending, hostVars, exp>>

LoadDiscardedNever(i) == FALSE

\* `if (isCancelled) return;` at the head of the load continuation
LoadDiscarded(i) == isCancelled[i]

\* Promise.all([...]).then(([colorTex, depthTex]) => ...) of instance i
LoadResolve(i) ==
  /\ i \in DOMAIN load
  /\ load[i] = "pending"
  /\ load' = [load EXCEPT ![i] = "done"]
  /\ IF LoadDiscarded(i)
       THEN /\ submitted' = NoCmd
            /\ UNCHANGED <<isLoading, sceneRefs, rafVars, objVars, gpuVars>>
       ELSE LET p == captured[i]
                bu == bakingUniforms @@
                        (i :> [uTexture |-> i, uDepthMap |-> i,
                               uBlurIntensity |-> p.blurIntensity,
                               uBlurOffset |-> p.blurOffset,
                               uRenderMode |-> IF p.renderMode = "fill" THEN 1 ELSE 0])
                baked == runBakePassReady(rendererRef, i, i)
            IN /\ colorTextureRef' = i
               /\ depthTextureRef' = i
               /\ bakedTextureRef' = i
               /\ bakingMaterialRef' = i
               /\ bakingUniforms' = bu
               /\ bakedContent' = bakedContent @@
                    (i :> IF baked THEN BakeOutput(bu[i]) ELSE NoContent)
               /\ alloc' = (IF baked THEN runBakePassAlloc(alloc, rendererRef, i, i, bu) ELSE alloc)
               /\ submitted' = (IF baked THEN runBakePassCmd(rendererRef, i, i, bu) ELSE NoCmd)
               /\ liveUniforms' = liveUniforms @@
                    (i :> [uBakedTexture |-> i, uDepthMap |-> i,
                           uDepthMultiplier |-> p.depthMultiplier])
               /\ liveMaterialRef' = i
               /\ meshes' = meshes @@
                    (i :> [geom |-> 0, seg |-> p.meshDetail, z |-> 0, rotX |-> 0,
                           rotY |-> 0, inScene |-> TRUE, disposedInScene |-> FALSE])
               /\ meshRef' = i
               /\ disposeCalls' = Create(disposeCalls,
                    {R("bakedRT", i), R("bakingMat", i), Geom(i, 0), R("liveMat", i)})
               /\ isLoading' = FALSE
               /\ requestRenderIfNotRequested
               /\ UNCHANGED <<rendererRef, sceneRef, cameraRef, sceneState>>
  /\ UNCHANGED <<propVars, cur, binds, captured, isCancelled, inputRefs,
                 listenerVars, exp>>

\* textureLoader.load(url, resolve) of instance i fails: the loader has no
\* onError callback, so neither promise settles and no continuation runs
LoadFail(i) ==
  /\ i \in DOMAIN load
  /\ load[i] = "pending"
  /\ load' = [load EXCEPT ![i] = "failed"]
  /\ submitted' = NoCmd
  /\ UNCHANGED <<propVars, cur, binds, captured, isCancelled, isLoading, sceneRefs,
                 inputRefs, rafVars, objVars, gpuVars, listenerVars, exp>>


\* the animation-frame callback scheduled by requestRenderIfNotRequested
FrameUses(sc) ==
  IF sc \in DOMAIN meshes /\ meshes[sc].inScene
    THEN {Geom(sc, meshes[sc].geom), R("liveMat", sc),
          R("bakedRT", liveUniforms[sc].uBakedTexture),
          R("depthTex", liveUniforms[sc].uDepthMap)}
    ELSE {}

RafFireKeepsFlag ==
  /\ rafPending > 0
  /\ rafPending' = rafPending - 1
  /\ renderRequestedRef' = renderRequestedRef
  /\ IF rendererRef # None /\ sceneRef # None /\ cameraRef # NoCamera
       THEN /\ alloc' = alloc \cup FrameUses(sceneRef)
            /\ submitted' = [op |-> "frame", renderer |-> rendererRef,
                             uses |-> FrameUses(sceneRef)]
       ELSE /\ alloc' = alloc
            /\ submitted' = NoCmd
  /\ UNCHANGED <<propVars, instVars, sceneRefs, inputRefs, objVars, disposeCalls,
                 listenerVars, exp>>

\* the callback handed to requestAnimationFrame runs
RafFire ==
  /\ rafPending > 0
  /\ rafPending' = rafPending - 1
  /\ renderRequestedRef' = FALSE
  /\ IF rendererRef # None /\ sceneRef # None /\ cameraRef # NoCamera
       THEN /\ alloc' = alloc \cup FrameUses(sceneRef)
            /\ submitted' = [op |-> "frame", renderer |-> rendererRef,
                             uses |-> FrameUses(sceneRef)]
       ELSE /\ alloc' = alloc
            /\ submitted' = NoCmd
  /\ UNCHANGED <<propVars, instVars, sceneRefs, inputRefs, objVars, disposeCalls,
                 listenerVars, exp>>

\* ------------------------------------------------------ parameter effects
SetViewAngleLimitStale(v) ==
  /\ mounted
  /\ v # props.viewAngleLimit
  /\ props' = [props EXCEPT !.viewAngleLimit = v]
  /\ submitted' = NoCmd
  /\ UNCHANGED <<mounted, instVars, sceneRefs, inputRefs, rafVars, objVars, gpuVars,
                 listenerVars, exp>>

\* effect on [viewAngleLimit]
SetViewAngleLimit(v) ==
  /\ mounted
  /\ v # props.viewAngleLimit
  /\ props' = [props EXCEPT !.viewAngleLimit = v]
  /\ maxAngleRef' = degToRad(2 * v)
  /\ submitted' = NoCmd
  /\ UNCHANGED <<mounted, instVars, sceneRefs, isDraggingRef, previousPointerPosition,
                 initialOrientationRef, rafVars, objVars, gpuVars, listenerVars, exp>>

TypeMatches(cam, cameraType) ==
  \/ cam.type = "PerspectiveCamera" /\ cameraType = "perspective"
  \/ cam.type = "OrthographicCamera" /\ cameraType = "orthographic"

CameraEffectKeep(cam, p) == cam

\* effect on [cameraType, cameraDistance, orthographicZoom]
CameraEffect(cam, p) ==
  IF cam = NoCamera \/ TypeMatches(cam, p.cameraType)
    THEN cam
    ELSE NewCamera(cam.id + 1, p)

\* effect on [depthMultiplier, cameraDistance, orthographicZoom, backgroundMode,
\* backgroundColor], followed by the camera effect, whose dependencies include
\* cameraDistance and orthographicZoom
SetParams(dm, cd, oz, bgm, bgc) ==
  /\ mounted
  /\ <<dm, cd, oz, bgm, bgc>> # <<props.depthMultiplier, props.cameraDistance,
         props.orthographicZoom, props.backgroundMode, props.backgroundColor>>
  /\ props' = [props EXCEPT !.depthMultiplier = dm, !.cameraDistance = cd,
                            !.orthographicZoom = oz, !.backgroundMode = bgm,
                            !.backgroundColor = bgc]
  /\ liveUniforms' = (IF liveMaterialRef # None
                        THEN [liveUniforms EXCEPT ![liveMaterialRef].uDepthMultiplier = dm]
                        ELSE liveUniforms)
  /\ LET cam1 == IF cameraRef = NoCamera THEN cameraRef
                 ELSE IF cameraRef.type = "PerspectiveCamera"
                   THEN [cameraRef EXCEPT !.z = cd]
                   ELSE [cameraRef EXCEPT !.zoom = oz]
     IN cameraRef' = (IF cd # props.cameraDistance \/ oz # props.orthographicZoom
                        THEN CameraEffect(cam1, props')
                        ELSE cam1)
  /\ sceneState' = (IF sceneRef # None /\ rendererRef # None
                      THEN [sceneState EXCEPT ![sceneRef].background = Background(props'),
                                              ![rendererRef].clearAlpha = ClearAlpha(props')]
                      ELSE sceneState)
  /\ requestRenderIfNotRequested
  /\ submitted' = NoCmd
  /\ UNCHANGED <<mounted, instVars, rendererRef, sceneRef, meshRef, colorTextureRef,
                 depthTextureRef, liveMaterialRef, bakingMaterialRef, bakedTextureRef,
                 inputRefs, meshes, bakingUniforms, bakedContent, gpuVars,
                 listenerVars, exp>>

\* effect on [meshDetail]
SetMeshDetail(v) ==
  /\ mounted
  /\ v # props.meshDetail
  /\ meshRef # None => meshes[meshRef].geom < MaxGeoms
  /\ props' = [props EXCEPT !.meshDetail = v]
  /\ IF meshRef # None /\ meshes[meshRef].seg # v
       THEN LET old == Geom(meshRef, meshes[meshRef].geom)
                new == Geom(meshRef, meshes[meshRef].geom + 1)
            IN /\ alloc' = DisposeAlloc(alloc, {old})
               /\ disposeCalls' = Create(DisposeCount(disposeCalls, {old}), {new})
               /\ meshes' = [meshes EXCEPT ![meshRef].geom = @ + 1, ![meshRef].seg = v,
                                          ![meshRef].z = 0]
               /\ requestRenderIfNotRequested
       ELSE UNCHANGED <<alloc, disposeCalls, meshes, rafVars>>
  /\ submitted' = NoCmd
  /\ UNCHANGED <<mounted, instVars, sceneRefs, inputRefs, bakingUniforms, liveUniforms,
                 bakedContent, sceneState, listenerVars, exp>>

\* effect on [blurIntensity, blurOffset, renderMode]
SetBlurParams(bi, bo, rm) ==
  /\ mounted
  /\ <<bi, bo, rm>> # <<props.blurIntensity, props.blurOffset, props.renderMode>>
  /\ props' = [props EXCEPT !.blurIntensity = bi, !.blurOffset = bo, !.renderMode = rm]
  /\ IF bakingMaterialRef # None
       THEN LET bu == [bakingUniforms EXCEPT
                         ![bakingMaterialRef].uBlurIntensity = bi,
                         ![bakingMaterialRef].uBlurOffset = bo,
                         ![bakingMaterialRef].uRenderMode = IF rm = "fill" THEN 1 ELSE 0]
            IN /\ bakingUniforms' = bu
               /\ IF runBakePassReady(rendererRef, bakingMaterialRef, bakedTextureRef)
                    THEN /\ alloc' = runBakePassAlloc(alloc, rendererRef, bakingMaterialRef,
                                               bakedTextureRef, bu)
                         /\ bakedContent' = runBakePassContent(bakedContent, bakingMaterialRef,
                                                        bakedTextureRef, bu)
                         /\ submitted' = runBakePassCmd(rendererRef, bakingMaterialRef,
                                                 bakedTextureRef, bu)
                         /\ requestRenderIfNotRequested
                    ELSE /\ submitted' = NoCmd
                         /\ UNCHANGED <<alloc, bakedContent, rafVars>>
       ELSE /\ submitted' = NoCmd
            /\ UNCHANGED <<bakingUniforms, alloc, bakedContent, rafVars>>
  /\ UNCHANGED <<mounted, instVars, sceneRefs, inputRefs, meshes, liveUniforms,
                 sceneState, disposeCalls, listenerVars, exp>>

SetCameraTypeRebake(t) ==
  /\ mounted
  /\ t # props.cameraType
  /\ cameraRef.id < MaxInst + MaxCams
  /\ props' = [props EXCEPT !.cameraType = t]
  /\ cameraRef' = CameraEffect(cameraRef, props')
  /\ requestRenderIfNotRequested
  /\ IF runBakePassReady(rendererRef, bakingMaterialRef, bakedTextureRef)
       THEN /\ submitted' = runBakePassCmd(rendererRef, bakingMaterialRef,
                                           bakedTextureRef, bakingUniforms)
            /\ alloc' = runBakePassAlloc(alloc, rendererRef, bakingMaterialRef,
                                         bakedTextureRef, bakingUniforms)
       ELSE /\ submitted' = NoCmd
            /\ alloc' = alloc
  /\ UNCHANGED <<mounted, instVars, rendererRef, sceneRef, meshRef, colorTextureRef,
                 depthTextureRef, liveMaterialRef, bakingMaterialRef, bakedTextureRef,
                 inputRefs, objVars, disposeCalls, listenerVars, exp>>

\* effect on [cameraType]
SetCameraType(t) ==
  /\ mounted
  /\ t # props.cameraType
  /\ cameraRef.id < MaxInst + MaxCams
  /\ props' = [props EXCEPT !.cameraType = t]
  /\ cameraRef' = CameraEffect(cameraRef, props')
  /\ IF cameraRef' # cameraRef THEN requestRenderIfNotRequested ELSE UNCHANGED rafVars
  /\ submitted' = NoCmd
  /\ UNCHANGED <<mounted, instVars, rendererRef, sceneRef, meshRef, colorTextureRef,
                 depthTextureRef, liveMaterialRef, bakingMaterialRef, bakedTextureRef,
                 inputRefs, objVars, gpuVars, listenerVars, exp>>


\* ------------------------------------------------------------ interaction
ResetRotationXOnly(m) == [m EXCEPT ![meshRef].rotX = 0]

\* meshRef.current.rotation.x = 0; meshRef.current.rotation.y = 0
ResetRotation(m) == [m EXCEPT ![meshRef].rotX = 0, ![meshRef].rotY = 0]

\* effect on [useSensor]: its previous cleanup removes the orientation
\* listener, then the body runs with the new value
SetUseSensor(b) ==
  /\ mounted
  /\ b # props.useSensor
  /\ (b /\ hasRequestPermission) => permPending < MaxPerm
  /\ props' = [props EXCEPT !.useSensor = b]
  /\ IF b
       THEN /\ IF hasRequestPermission
                 THEN /\ permPending' = permPending + 1
                      /\ orientationListener' = FALSE
                 ELSE /\ permPending' = permPending
                      /\ orientationListener' = TRUE
            /\ UNCHANGED <<initialOrientationRef, meshes, rafVars>>
       ELSE /\ orientationListener' = FALSE
            /\ permPending' = permPending
            /\ initialOrientationRef' = NoOrientation
            /\ IF meshRef # None
                 THEN /\ meshes' = ResetRotation(meshes)
                      /\ requestRenderIfNotRequested
                 ELSE UNCHANGED <<meshes, rafVars>>
  /\ submitted' = NoCmd
  /\ UNCHANGED <<mounted, instVars, sceneRefs, maxAngleRef, isDraggingRef,
                 previousPointerPosition, bakingUniforms, liveUniforms, bakedContent,
                 sceneState, gpuVars, downListener, moveListener, resizeListener,
                 hostVars, exp>>

\* requestPermission().then(permissionState => ...)
PermissionResolve(granted) ==
  /\ permPending > 0
  /\ permPending' = permPending - 1
  /\ orientationListener' = (IF granted THEN TRUE ELSE orientationListener)
  /\ submitted' = NoCmd
  /\ UNCHANGED <<propVars, instVars, sceneRefs, inputRefs, rafVars, objVars, gpuVars,
                 downListener, moveListener, resizeListener, hostVars, exp>>

\* handleDeviceOrientation, called by the window for a deviceorientation event
handleDeviceOrientation(beta, gamma) ==
  /\ orientationListener
  /\ IF meshRef = None \/ beta = 0 \/ gamma = 0
       THEN UNCHANGED <<initialOrientationRef, meshes, rafVars>>
       ELSE LET ref == IF initialOrientationRef.null
                         THEN [null |-> FALSE, beta |-> beta, gamma |-> gamma]
                         ELSE initialOrientationRef
                b == beta - ref.beta
                g == gamma - ref.gamma
            IN /\ initialOrientationRef' = ref
               /\ meshes' = [meshes EXCEPT
                    ![meshRef].rotX = clamp(degToRad(-b), -maxAngleRef, maxAngleRef),
                    ![meshRef].rotY = clamp(degToRad(-g), -maxAngleRef, maxAngleRef)]
               /\ requestRenderIfNotRequested
  /\ submitted' = NoCmd
  /\ UNCHANGED <<propVars, instVars, sceneRefs, maxAngleRef, isDraggingRef,
                 previousPointerPosition, bakingUniforms, liveUniforms, bakedContent,
                 sceneState, gpuVars, listenerVars, exp>>

\* onPointerDown as registered on the mount node by the scene effect of
\* instance downListener: the callback of the render that bound that instance
onPointerDown(x, y) ==
  /\ downListener # None
  /\ IF captured[downListener].useSensor
       THEN UNCHANGED <<isDraggingRef, previousPointerPosition, moveListener>>
       ELSE /\ isDraggingRef' = TRUE
            /\ previousPointerPosition' = [x |-> x, y |-> y]
            /\ moveListener' = downListener
  /\ submitted' = NoCmd
  /\ UNCHANGED <<propVars, instVars, sceneRefs, maxAngleRef, initialOrientationRef,
                 rafVars, objVars, gpuVars, downListener, orientationListener,
                 resizeListener, permPending, hostVars, exp>>

\* onPointerMove as added to the window by that onPointerDown
onPointerMove(x, y) ==
  /\ moveListener # None
  /\ IF ~isDraggingRef \/ meshRef = None \/ captured[moveListener].useSensor
       THEN UNCHANGED <<previousPointerPosition, meshes, rafVars>>
       ELSE LET deltaX == x - previousPointerPosition.x
                deltaY == y - previousPointerPosition.y
            IN /\ meshes' = [meshes EXCEPT
                    ![meshRef].rotY = clamp(meshes[meshRef].rotY + DragAngle(deltaX),
                                            -maxAngleRef, maxAngleRef),
                    ![meshRef].rotX = clamp(meshes[meshRef].rotX + DragAngle(deltaY),
                                            -maxAngleRef, maxAngleRef)]
               /\ previousPointerPosition' = [x |-> x, y |-> y]
               /\ requestRenderIfNotRequested
  /\ submitted' = NoCmd
  /\ UNCHANGED <<propVars, instVars, sceneRefs, maxAngleRef, isDraggingRef,
                 initialOrientationRef, bakingUniforms, liveUniforms, bakedContent,
                 sceneState, gpuVars, listenerVars, exp>>

\* onPointerUp as added to the window by that onPointerDown
onPointerUp ==
  /\ moveListener # None
  /\ isDraggingRef' = FALSE
  /\ moveListener' = None
  /\ submitted' = NoCmd
  /\ UNCHANGED <<propVars, instVars, sceneRefs, maxAngleRef, previousPointerPosition,
                 initialOrientationRef, rafVars, objVars, gpuVars, downListener,
                 orientationListener, resizeListener, permPending,
                 hostVars, exp>>

\* handleResize of the live scene effect
handleResize ==
  /\ resizeListener # None
  /\ requestRenderIfNotRequested
  /\ submitted' = NoCmd
  /\ UNCHANGED <<propVars, instVars, sceneRefs, inputRefs, objVars, gpuVars,
                 listenerVars, exp>>


\* ----------------------------------------------------------- handleExport
ExportReadyAnyFormat(format) ==
  /\ meshRef # None
  /\ rendererRef # None
  /\ sceneRef # None
  /\ cameraRef # NoCamera
  /\ bakedTextureRef # None

\* the guard at the head of handleExport
ExportReady(format) ==
  /\ meshRef # None
  /\ rendererRef # None
  /\ sceneRef # None
  /\ cameraRef # NoCamera
  /\ bakedTextureRef # None
  /\ format = "glb"

TempMat(i, n) == <<"tempMat", i, n>>

ClonedGeom(i, n) == <<"clonedGeom", i, n>>

CanvasTex(i, n) == <<"canvasTex", i, n>>

ExportMat(i, n) == <<"exportMat", i, n>>

\* handleExport up to `await getDepthDataFromImage(depthMap)`
handleExport(format) ==
  /\ mounted
  /\ exp.pc = "idle"
  /\ exp.n < MaxExports
  /\ IF ~ExportReady(format)
       THEN /\ exp' = [IdleExport EXCEPT !.n = exp.n + 1, !.result = "notReady"]
            /\ submitted' = NoCmd
            /\ UNCHANGED <<isLoading, gpuVars, sceneState>>
       ELSE LET n == exp.n + 1
                rt == TempRT(rendererRef, n)
                mat == TempMat(rendererRef, n)
                u == bakingUniforms[bakingMaterialRef]
                uses == {rt, mat, R("colorTex", u.uTexture), R("depthTex", u.uDepthMap)}
                originalClearColor == sceneState[rendererRef].clearColor
                originalClearAlpha == sceneState[rendererRef].clearAlpha
            IN /\ isLoading' = TRUE
               /\ sceneState' = RestoreClear(ExportClear(sceneState, rendererRef),
                                             rendererRef, originalClearColor,
                                             originalClearAlpha)
               /\ alloc' = DisposeAlloc(alloc \cup uses \cup {Quad(rendererRef)},
                                        {Quad(rendererRef), mat})
               /\ disposeCalls' = DisposeCount(Create(disposeCalls, {rt, mat}), {mat})
               /\ submitted' = [op |-> "exportBake", renderer |-> rendererRef,
                                uses |-> uses]
               /\ exp' = [pc |-> "awaitDepth", n |-> n, mesh |-> meshRef,
                          renderer |-> rendererRef,
                          depthMultiplier |-> props.depthMultiplier,
                          result |-> "none", source |-> NoRes,
                          content |-> BakeOutput(u), depthMap |-> props.depthMap,
                          cloneZ |-> <<>>]
  /\ UNCHANGED <<propVars, cur, binds, captured, isCancelled, load, sceneRefs,
                 inputRefs, rafVars, meshes, bakingUniforms, liveUniforms,
                 bakedContent, listenerVars>>

\* handleExport from the resolution of getDepthDataFromImage to the call of
\* exporter.parse (or to the exception that ends it)
handleExportResume(ok, ctxOk) ==
  /\ exp.pc = "awaitDepth"
  /\ isLoading' = (IF mounted THEN FALSE ELSE isLoading)
  /\ IF ~ok
       THEN /\ exp' = [exp EXCEPT !.pc = "idle", !.result = "rejected"]
            /\ submitted' = NoCmd
            /\ UNCHANGED gpuVars
       ELSE LET src == Geom(exp.mesh, meshes[exp.mesh].geom)
                rt == TempRT(exp.renderer, exp.n)
                cg == ClonedGeom(exp.renderer, exp.n)
                ct == CanvasTex(exp.renderer, exp.n)
                em == ExportMat(exp.renderer, exp.n)
                Displaced == DisplacedZ(getDepthDataFromImage(exp.depthMap),
                                        meshes[exp.mesh].seg, meshes[exp.mesh].z,
                                        exp.depthMultiplier)
            IN /\ submitted' = [op |-> "readback", renderer |-> exp.renderer,
                                uses |-> {rt}]
               /\ IF ctxOk
                    THEN /\ exp' = [exp EXCEPT !.pc = "parsing", !.source = src,
                                               !.cloneZ = Displaced]
                         /\ alloc' = DisposeAlloc(alloc, {rt})
                         /\ disposeCalls' =
                              DisposeCount(Create(disposeCalls, {cg, ct, em}), {rt})
                    ELSE /\ exp' = [exp EXCEPT !.pc = "idle", !.result = "rejected",
                                               !.source = src, !.cloneZ = Displaced]
                         /\ alloc' = alloc
                         /\ disposeCalls' = Create(disposeCalls, {cg})
  /\ UNCHANGED <<propVars, cur, binds, captured, isCancelled, load, sceneRefs,
                 inputRefs, rafVars, objVars, listenerVars>>

\* the onDone / onError callback of exporter.parse
handleExportParsed(ok) ==
  /\ exp.pc = "parsing"
  /\ LET S == {ClonedGeom(exp.renderer, exp.n), CanvasTex(exp.renderer, exp.n),
               ExportMat(exp.renderer, exp.n)}
     IN /\ alloc' = DisposeAlloc(alloc, S)
        /\ disposeCalls' = DisposeCount(disposeCalls, S)
  /\ exp' = [exp EXCEPT !.pc = "idle", !.result = IF ok THEN "resolved" ELSE "rejected"]
  /\ submitted' = NoCmd
  /\ UNCHANGED <<propVars, instVars, sceneRefs, inputRefs, rafVars, objVars,
                 listenerVars>>


\* --------------------------------------------------------- specifications
ParamEdit ==
  \/ \E v \in DetailValues : SetMeshDetail(v)

BlurEdit ==
  \E bi \in BlurValues : SetBlurParams(bi, props.blurOffset, props.renderMode)

Binding ==
  \/ \E empty \in BOOLEAN : SetImage(empty)
  \/ Unmount
  \/ \E i \in 1..MaxInst : LoadResolve(i)

Lifecycle ==
  \/ Binding
  \/ RafFire

Export ==
  \/ \E format \in {"glb", "obj"} : handleExport(format)
  \/ \E ok \in BOOLEAN, ctxOk \in BOOLEAN : handleExportResume(ok, ctxOk)
  \/ \E ok \in BOOLEAN : handleExportParsed(ok)

Pointer ==
  \/ \E pt \in PointerPoints : onPointerDown(pt[1], pt[2])
  \/ \E pt \in PointerPoints : onPointerMove(pt[1], pt[2])
  \/ onPointerUp

Sensor ==
  \/ \E b \in BOOLEAN : SetUseSensor(b)
  \/ \E granted \in BOOLEAN : PermissionResolve(granted)
  \/ \E rd \in TiltReadings : handleDeviceOrientation(rd[1], rd[2])

\* the scene's life cycle: binds, loads, teardowns, edits, bakes, frames, exports
Next ==
  \/ Lifecycle
  \/ ParamEdit
  \/ BlurEdit
  \/ Export

Spec == Init /\ [][Next]_vars

\* the same without exports
NextScene ==
  \/ Lifecycle
  \/ ParamEdit
  \/ BlurEdit

SpecScene == Init /\ [][NextScene]_vars

\* the interaction controller on one scene instance: load, pointer and
\* orientation events, sensor toggle, view-angle edits, unmount
NextInput ==
  \/ Unmount
  \/ \E i \in 1..MaxInst : LoadResolve(i)
  \/ Pointer
  \/ Sensor
  \/ \E v \in LimitValues : SetViewAngleLimit(v)

SpecInput == InitInput /\ [][NextInput]_vars

\* the bake pipeline of one scene instance: load, frames, every edit of the
\* three baking parameters, teardown by empty inputs or unmount
BlurEditAll ==
  \E bi \in BlurValues, bo \in OffsetValues, rm \in ModeValues : SetBlurParams(bi, bo, rm)

\* the blur effect after one of the two sliders or the mode switch moved
ShaderEdit ==
  \/ \E bi \in ShaderBlurValues : SetBlurParams(bi, props.blurOffset, props.renderMode)
  \/ \E bo \in ShaderOffsetValues : SetBlurParams(props.blurIntensity, bo, props.renderMode)
  \/ \E rm \in ModeValues : SetBlurParams(props.blurIntensity, props.blurOffset, rm)

NextShader ==
  \/ LoadResolve(1)
  \/ ShaderEdit

SpecShader == InitShader /\ [][NextShader]_vars

NextBake ==
  \/ SetImage(TRUE)
  \/ Unmount
  \/ \E i \in 1..MaxInst : LoadResolve(i)
  \/ RafFire
  \/ BlurEditAll

SpecBake == Init /\ [][NextBake]_vars

\* every edit that is not an edit of a baking parameter, on one scene
\* instance: depth multiplier, camera distance, zoom, camera kind, mesh
\* resolution, drag and tilt rotation
DepthEdit ==
  \E dm \in DepthValues :
    SetParams(dm, props.cameraDistance, props.orthographicZoom,
              props.backgroundMode, props.backgroundColor)

DistanceEdit ==
  \E cd \in DistanceValues :
    SetParams(props.depthMultiplier, cd, props.orthographicZoom,
              props.backgroundMode, props.backgroundColor)

ZoomEdit ==
  \E oz \in ZoomValues :
    SetParams(props.depthMultiplier, props.cameraDistance, oz,
              props.backgroundMode, props.backgroundColor)

CameraEdit ==
  \/ DistanceEdit
  \/ ZoomEdit
  \/ \E t \in CameraTypes : SetCameraType(t)

Rotate ==
  \/ Pointer
  \/ \E b \in BOOLEAN : SetUseSensor(b)
  \/ \E rd \in TiltReadings : handleDeviceOrientation(rd[1], rd[2])

NextEdit ==
  \/ \E i \in 1..MaxInst : LoadResolve(i)
  \/ DepthEdit
  \/ CameraEdit
  \/ ParamEdit
  \/ Rotate

SpecEdit == Init /\ [][NextEdit]_vars

\* exports on one scene instance: load, render-mode and depth edits, frames,
\* teardown by empty inputs or unmount, and every path through handleExport
ModeEdit ==
  \E rm \in ModeValues : SetBlurParams(props.blurIntensity, props.blurOffset, rm)

NextExport ==
  \/ SetImage(TRUE)
  \/ Unmount
  \/ \E i \in 1..MaxInst : LoadResolve(i)
  \/ RafFire
  \/ ModeEdit
  \/ DepthEdit
  \/ Export

SpecExport == Init /\ [][NextExport]_vars

\* the depth worker: messages and the settling of what their handlers await
NextWorker ==
  \/ \E model \in ModelNames : onmessage("init", model)
  \/ onmessage("generate", "null")
  \/ \E t \in 1..MaxMsgs, adapter \in BOOLEAN : requestAdapterSettled(t, adapter)
  \/ \E t \in 1..MaxMsgs, ok \in BOOLEAN : pipelineSettled(t, ok)
  \/ \E t \in 1..MaxMsgs, ok \in BOOLEAN : detectorSettled(t, ok)

SpecWorker == InitWorker /\ [][NextWorker]_vars

\* exports of one scene at every mesh resolution and depth multiplier
NextDisplace ==
  \/ LoadResolve(1)
  \/ ParamEdit
  \/ DepthEdit
  \/ Export

SpecDisplace == InitDisplace /\ [][NextDisplace]_vars

\* binding with texture loads that succeed or fail
NextLoad ==
  \/ Binding
  \/ \E i \in 1..MaxInst : LoadFail(i)
  \/ RafFire
  \/ ParamEdit
  \/ BlurEdit

SpecLoad == Init /\ [][NextLoad]_vars

\* frame scheduling on one scene instance: every source of render requests
\* (load, parameter edits, bakes, drags, tilts, sensor switch-off, resize)
\* and the animation-frame callback, up to and after unmount
NextFrame ==
  \/ \E i \in 1..MaxInst : LoadResolve(i)
  \/ Unmount
  \/ RafFire
  \/ DepthEdit
  \/ BlurEdit
  \/ Rotate
  \/ handleResize

SpecFrame == Init /\ [][NextFrame]_vars

\* the host runs a pending animation-frame callback eventually
SpecFrameFair == SpecFrame /\ WF_vars(RafFire)

\* the camera over binds, teardowns and camera-kind, distance and zoom edits
NextCamera ==
  \/ Binding
  \/ RafFire
  \/ CameraEdit

SpecCamera == Init /\ [][NextCamera]_vars


\* ================================================================ claims
TornDown(i) == i \in DOMAIN isCancelled /\ isCancelled[i]

SceneKinds ==
  {"colorTex", "depthTex", "bakedRT", "bakingMat", "geom", "liveMat", "quad", "renderer"}

\* C1: once a scene instance is torn down, none of the GPU resources created
\* for it (textures, baked target, baking material, geometries, live material,
\* bake quad, renderer) holds GPU memory.
C1_NoOrphanAfterTeardown ==
  \A r \in alloc : ~(KindOf(r) \in SceneKinds /\ TornDown(InstOf(r)))

\* C2: no resource receives dispose() more than once, over any sequence of
\* binds and teardowns.
C2_DisposedAtMostOnce ==
  \A r \in DOMAIN disposeCalls : disposeCalls[r] <= 1

\* C3: the load continuation of an instance that was torn down first changes
\* no shared reference, creates no resource, adds nothing to a scene, runs no
\* bake and requests no frame.
C3_CancelledLoadInert ==
  [][\A i \in DOMAIN load :
       (load[i] = "pending" /\ load'[i] = "done" /\ isCancelled[i])
         => /\ UNCHANGED <<sceneRefs, objVars, gpuVars, rafVars, isLoading>>
            /\ submitted' = NoCmd]_vars

\* a torn-down instance whose load resolved afterwards
C3_Witness ==
  \E i \in DOMAIN load : load[i] = "done" /\ isCancelled[i] /\ i \notin DOMAIN meshes

\* C4: no bake pass and no frame render uses a texture, render target or
\* material of an instance that has been torn down.
C4_NoWorkOnSuperseded ==
  submitted.op \in {"bake", "frame"}
    => \A r \in submitted.uses : ~TornDown(InstOf(r))

\* C5: an export never reads back from or renders with a renderer that has
\* been disposed, and when it resumes it does not use a torn-down mesh.
C5_ExportSafeAcrossTeardown ==
  /\ submitted.op \in {"exportBake", "readback"}
       => disposeCalls[R("renderer", submitted.renderer)] = 0
  /\ submitted.op = "readback" => ~TornDown(exp.mesh)


Abs(a) == IF a < 0 THEN -a ELSE a

Limit == degToRad(2 * props.viewAngleLimit)

Loaded == meshRef # None

RotX == meshes[meshRef].rotX

RotY == meshes[meshRef].rotY

\* the value each handler hands to clamp
Clamped(raw, result, lim) ==
  /\ Abs(result) <= lim
  /\ raw > lim => result = lim
  /\ raw < -lim => result = -lim
  /\ Abs(raw) <= lim => result = raw

\* C6: every drag move and every orientation reading that updates rotation
\* leaves both angles within +/- rad(viewAngleLimit) of the limit current at
\* the event; an overshooting value becomes exactly +limit or -limit.
C6_ClampedOnEveryUpdate ==
  [][/\ \A pt \in PointerPoints :
          (onPointerMove(pt[1], pt[2]) /\ isDraggingRef /\ Loaded
             /\ ~captured[moveListener].useSensor)
            => /\ Clamped(RotY + DragAngle(pt[1] - previousPointerPosition.x), RotY', Limit)
               /\ Clamped(RotX + DragAngle(pt[2] - previousPointerPosition.y), RotX', Limit)
     /\ \A rd \in TiltReadings :
          (handleDeviceOrientation(rd[1], rd[2]) /\ Loaded /\ rd[1] # 0 /\ rd[2] # 0)
            => /\ Clamped(degToRad(-(rd[1] - initialOrientationRef'.beta)), RotX', Limit)
               /\ Clamped(degToRad(-(rd[2] - initialOrientationRef'.gamma)), RotY', Limit)
    ]_vars

\* a drag move of (+50, +20) pixels from rest: the horizontal delta overshoots
\* and is clamped to +limit, the vertical one is applied as it is
C6_Witness ==
  /\ Loaded
  /\ isDraggingRef
  /\ previousPointerPosition = [x |-> 50, y |-> 20]
  /\ RotY = Limit
  /\ RotX = DragAngle(20)
  /\ RotX < Limit

\* C7 as stated: in every state both angles are within +/- rad(current limit).
C7_AlwaysWithinCurrentLimit ==
  Loaded => Abs(RotX) <= Limit /\ Abs(RotY) <= Limit

\* C7 amended: every step that writes rotation leaves it within the limit
\* current after the step, every step that does not lower the limit preserves
\* the bound, and lowering the limit leaves rotation as it was.
C7_WithinLimitOfLastUpdate ==
  [][Loaded' =>
       /\ (~Loaded \/ RotX' # RotX \/ RotY' # RotY)
            => Abs(RotX') <= Limit' /\ Abs(RotY') <= Limit'
       /\ (Loaded /\ Abs(RotX) <= Limit /\ Abs(RotY) <= Limit /\ Limit' >= Limit)
            => Abs(RotX') <= Limit' /\ Abs(RotY') <= Limit'
       /\ (Loaded /\ Limit' < Limit) => RotX' = RotX /\ RotY' = RotY
    ]_vars

\* the limit was lowered under a rotation that now exceeds it
C7_Witness == Loaded /\ Abs(RotY) > Limit

PointerStep ==
  \/ \E pt \in PointerPoints : onPointerDown(pt[1], pt[2])
  \/ \E pt \in PointerPoints : onPointerMove(pt[1], pt[2])

\* C8: while sensor-follow is on, no pointer press and no pointer move
\* changes the mesh rotation.
C8_PointerInertWhileSensorOn ==
  [][(props.useSensor /\ PointerStep) => meshes' = meshes]_vars

\* C9: no deviceorientation listener is registered while sensor-follow is off
\* or the component is unmounted, so no reading changes rotation then.
C9_NoListenerWhileSensorOff ==
  (~props.useSensor \/ ~mounted) => ~orientationListener

C11_PointerWorksAfterSensorOff ==
  [][/\ PermissionResolve(FALSE) => orientationListener' = orientationListener
     /\ \A pt \in PointerPoints :
          (onPointerDown(pt[1], pt[2]) /\ ~props.useSensor)
            => /\ isDraggingRef'
               /\ moveListener' # None
    ]_vars

BakeParams(p) ==
  [intensity |-> p.blurIntensity, offset |-> p.blurOffset,
   mode |-> IF p.renderMode = "fill" THEN 1 ELSE 0]

ContentParams(c) == [intensity |-> c.intensity, offset |-> c.offset, mode |-> c.mode]

\* C12: on a loaded scene a change of blur intensity, blur offset or render
\* mode submits, in the same step, a bake whose output carries the new values,
\* and every frame rendered on a loaded scene samples a baked texture whose
\* content was produced with the baking uniforms as they are at that frame.
C12_BakeFollowsEveryChange ==
  [][/\ (Loaded /\ BakeParams(props') # BakeParams(props))
          => /\ submitted'.op = "bake"
             /\ R("bakedRT", bakedTextureRef) \in submitted'.uses
             /\ ContentParams(bakedContent'[bakedTextureRef']) = BakeParams(props')
             /\ liveUniforms'[meshRef'].uBakedTexture = bakedTextureRef'
     /\ (Loaded /\ submitted'.op = "frame")
          => /\ R("bakedRT", bakedTextureRef) \in submitted'.uses
             /\ bakedContent[bakedTextureRef] = BakeOutput(bakingUniforms[bakingMaterialRef])
    ]_vars

\* a frame rendered after render mode was changed to fill on a scene that was
\* loaded in blur mode: the baked texture it samples was produced in fill mode
C12_Witness ==
  /\ Loaded
  /\ captured[meshRef].renderMode = "blur"
  /\ props.renderMode = "fill"
  /\ submitted.op = "frame"
  /\ bakedContent[bakedTextureRef].mode = 1

NonBakingChange ==
  \/ props'.cameraType # props.cameraType
  \/ props'.cameraDistance # props.cameraDistance
  \/ props'.orthographicZoom # props.orthographicZoom
  \/ props'.meshDetail # props.meshDetail
  \/ props'.depthMultiplier # props.depthMultiplier
  \/ Loaded /\ Loaded' /\ (RotX' # RotX \/ RotY' # RotY)

\* C13: a step that changes camera kind, camera distance, zoom, mesh
\* resolution, depth multiplier or the mesh rotation submits no bake and
\* leaves the baked texture and the baking uniforms as they were.
C13_NoBakeOnOtherEdits ==
  [][NonBakingChange
       => /\ submitted'.op # "bake"
          /\ UNCHANGED <<bakedContent, bakingUniforms>>]_vars

\* a loaded scene after a camera-kind, distance, zoom, resolution and depth
\* edit and a rotation, the last step being one of them: the baked texture
\* still holds what the load baked
C13_Witness ==
  /\ Loaded
  /\ props.cameraType = "orthographic"
  /\ props.cameraDistance = 3
  /\ props.orthographicZoom = 2
  /\ props.meshDetail = 2
  /\ meshes[meshRef].seg = 2
  /\ props.depthMultiplier = 5
  /\ RotY # 0
  /\ submitted = NoCmd
  /\ bakedContent[bakedTextureRef] = BakeOutput(bakingUniforms[bakingMaterialRef])
  /\ ContentParams(bakedContent[bakedTextureRef]) = BakeParams(captured[meshRef])

ExportInvoked == exp'.n = exp.n + 1

ExportResources == {r \in DOMAIN disposeCalls :
                      KindOf(r) \in {"tempRT", "tempMat", "clonedGeom", "canvasTex", "exportMat"}}

\* C14: an export invoked while the render mode is fill is rejected in the
\* same step, submits no GPU work and creates no render target.
C14_FillExportRejected ==
  [][(ExportInvoked /\ props.renderMode = "fill")
       => /\ exp'.pc = "idle"
          /\ exp'.result = "notReady"
          /\ submitted' = NoCmd
          /\ DOMAIN disposeCalls' = DOMAIN disposeCalls]_vars

SceneAbsent ==
  \/ meshRef = None
  \/ rendererRef = None
  \/ sceneRef = None
  \/ cameraRef = NoCamera
  \/ bakedTextureRef = None
  \/ cur = None
  \/ load[cur] = "pending"

\* C15: an export invoked while the scene is loading or torn down (one of
\* mesh, renderer, scene, camera, baked target absent), or with a format other
\* than glb, is rejected in the same step; it creates and allocates nothing,
\* submits no GPU work and leaves the loading flag and the live state alone.
C15_NotReadyExportRejected ==
  [][(((\E f \in {"glb", "obj"} : handleExport(f)) /\ SceneAbsent)
         \/ handleExport("obj"))
       => /\ exp'.pc = "idle"
          /\ exp'.result = "notReady"
          /\ submitted' = NoCmd
          /\ UNCHANGED <<isLoading, gpuVars, sceneRefs, objVars, rafVars, propVars,
                         inputRefs, listenerVars>>]_vars

\* an export was invoked while the textures were loading and was rejected;
\* the loading flag is still set
C15_Witness ==
  /\ exp.n > 0
  /\ exp.pc = "idle"
  /\ exp.result = "notReady"
  /\ cur # None
  /\ load[cur] = "pending"
  /\ isLoading
  /\ DOMAIN disposeCalls = {R("renderer", cur), R("colorTex", cur), R("depthTex", cur)}

\* C16: when an export has been rejected after it started its work, every
\* temporary resource it created (temporary render target, cloned baking
\* material, cloned geometry, canvas texture, export material) has been
\* disposed and none of them holds GPU memory.
C16_FailedExportDisposesTemporaries ==
  (exp.pc = "idle" /\ exp.result = "rejected")
    => /\ \A r \in ExportResources : disposeCalls[r] >= 1
       /\ \A r \in alloc : KindOf(r) # "tempRT"

ExportStep == exp' # exp

\* C17: no step of an export, whether it ends resolved or rejected, changes
\* the live mesh (geometry, vertex positions, rotation), the live or baking
\* uniforms, the baked texture, or the renderer's clear colour, clear alpha
\* and bound render target, and none disposes a resource of the live scene.
C17_ExportLeavesLiveScene ==
  [][ExportStep
       => /\ UNCHANGED <<meshes, liveUniforms, bakingUniforms, bakedContent, sceneState>>
          /\ UNCHANGED sceneRefs
          /\ \A r \in DOMAIN disposeCalls :
               KindOf(r) \in SceneKinds => disposeCalls'[r] = disposeCalls[r]]_vars

\* an export resolved on a scene rendered with a transparent clear: the
\* clone was displaced, the live geometry is flat and undisposed, and the
\* renderer's clear state is what it was
C17_Witness ==
  /\ Loaded
  /\ exp.pc = "idle"
  /\ exp.result = "resolved"
  /\ \A vtx \in DOMAIN exp.cloneZ : exp.cloneZ[vtx] > 0
  /\ exp.cloneZ # <<>>
  /\ meshes[meshRef].z = 0
  /\ sceneState[rendererRef] = NewSceneState(props)
  /\ sceneState[rendererRef].clearAlpha = 0
  /\ disposeCalls[Geom(meshRef, meshes[meshRef].geom)] = 0

\* C18: once a texture load of the live instance has failed, the bind has
\* terminated: the scene is not in the loading state.
C18_FailedLoadEndsLoading ==
  (mounted /\ cur # None /\ load[cur] = "failed") => ~isLoading

\* C19: at most one animation-frame callback is pending and the flag is set
\* exactly while one is; a callback is scheduled only by a request made while
\* the flag is clear, and the flag is cleared only by the callback running.
C19_SingleFrameInFlight ==
  [][/\ rafPending <= 1 /\ (renderRequestedRef <=> rafPending = 1)
     /\ rafPending' <= 1 /\ (renderRequestedRef' <=> rafPending' = 1)
     /\ rafPending' > rafPending
          => ~renderRequestedRef /\ renderRequestedRef' /\ rafPending' = rafPending + 1
     /\ (renderRequestedRef /\ ~renderRequestedRef') <=> rafPending' = rafPending - 1
    ]_vars

\* since the load, whose bake requested a frame, a depth edit and a drag have
\* requested frames too and no frame has rendered the mesh yet: one callback
\* is pending
C19_Witness ==
  /\ Loaded
  /\ Geom(meshRef, meshes[meshRef].geom) \notin alloc
  /\ props.depthMultiplier # captured[meshRef].depthMultiplier
  /\ RotY # 0
  /\ rafPending = 1
  /\ renderRequestedRef

CameraAgrees(cam, p) ==
  /\ TypeMatches(cam, p.cameraType)
  /\ cam.type = "PerspectiveCamera" => cam.z = p.cameraDistance
  /\ cam.type = "OrthographicCamera" => cam.zoom = p.orthographicZoom

\* C20: on a bound scene the live camera has the requested kind, a
\* perspective camera stands at the current distance and an orthographic
\* camera has the current zoom; the camera object is replaced only by a step
\* that changes the kind or binds a scene, so distance and zoom edits mutate
\* the camera they find.
C20_CameraFollowsProps ==
  [][/\ cur # None => CameraAgrees(cameraRef, props)
     /\ cur' # None => CameraAgrees(cameraRef', props')
     /\ cameraRef'.id # cameraRef.id
          => props'.cameraType # props.cameraType \/ binds' # binds
     /\ (cur # None /\ binds' = binds /\ props'.cameraType # props.cameraType)
          => cameraRef'.id # cameraRef.id
    ]_vars

\* the camera was rebuilt as an orthographic one by a kind change and carries
\* the edited zoom, while the distance was edited too
C20_Witness ==
  /\ cur # None
  /\ cameraRef.id > binds
  /\ cameraRef.type = "OrthographicCamera"
  /\ props.orthographicZoom = 2
  /\ cameraRef.zoom = 2
  /\ props.cameraDistance = 3

LiveGeom == Geom(meshRef, meshes[meshRef].geom)

\* C21: on a loaded scene a step that changes the mesh resolution disposes
\* the old live geometry once and installs a new geometry with the requested
\* segment count, and a step that changes no mesh resolution neither replaces
\* nor disposes the live geometry.
C21_GeometryRebuiltOnDetailOnly ==
  [][/\ (Loaded /\ props'.meshDetail # props.meshDetail)
          => /\ disposeCalls'[LiveGeom] = disposeCalls[LiveGeom] + 1
             /\ meshes'[meshRef].geom # meshes[meshRef].geom
             /\ meshes'[meshRef].seg = props'.meshDetail
             /\ disposeCalls'[Geom(meshRef, meshes'[meshRef].geom)] = 0
     /\ (Loaded /\ Loaded' /\ mounted' /\ props'.meshDetail = props.meshDetail)
          => /\ meshes'[meshRef].geom = meshes[meshRef].geom
             /\ meshes'[meshRef].seg = meshes[meshRef].seg
             /\ disposeCalls'[LiveGeom] = disposeCalls[LiveGeom]
    ]_vars

\* C22: teardown removes the mesh from the scene before it disposes the
\* mesh's geometry and material: no mesh has had its geometry or material
\* disposed by a teardown while it was still in the scene.
C22_RemovedBeforeDisposed ==
  \A i \in DOMAIN meshes : ~meshes[i].disposedInScene

\* ------------------------------------------------------------ baked pixels
\* a bake pass has written the baked texture of the current scene
Baked ==
  /\ bakedTextureRef # None
  /\ bakingMaterialRef # None
  /\ bakedTextureRef \in DOMAIN bakedContent
  /\ bakedContent[bakedTextureRef].color # None

BakedPixels == bakedContent[bakedTextureRef].pixels

SourceTexture == captured[bakingUniforms[bakingMaterialRef].uTexture].image

SourceImage == SourceTexture.data

SourceDepth == captured[bakingUniforms[bakingMaterialRef].uDepthMap].depthMap

\* the blur-mode output of the baking shader for the given inputs alone
BlurBake(img, dep, bi, bo) ==
  [p \in TargetPixels(img) |-> bakingFragmentShader(img, dep, bi, bo, 0, p[1], p[2])]

\* C23: in blur mode the baked texture is the blur-mode bake of the colour
\* image, the depth map, the blur intensity and the blur offset in force, and
\* of nothing else: whatever was baked before (another mode, other values)
\* leaves no trace, so a toggle blur -> fill -> blur gives the same texture.
C23_BlurBakeIndependentOfHistory ==
  (Baked /\ props.renderMode = "blur")
    => BakedPixels = BlurBake(SourceTexture, SourceDepth,
                              props.blurIntensity, props.blurOffset)

\* east-west and north-south neighbour differences are zero at every texel
Flat(dep, res) ==
  \A p \in TargetPixels(res) :
    /\ getDepth(dep, res, p[1] + 1, p[2]) = getDepth(dep, res, p[1] - 1, p[2])
    /\ getDepth(dep, res, p[1], p[2] + 1) = getDepth(dep, res, p[1], p[2] - 1)

\* C24: over a flat depth map the baked texture equals the source colour at
\* every texel, for every blur intensity, blur offset and render mode: nothing
\* is blurred and nothing is discarded.
C24_FlatDepthBakesSource ==
  (Baked /\ Flat(SourceDepth, SourceTexture)) => BakedPixels = SourceImage

\* a fill-mode bake over a flat depth map, of an image that is not uniform
C24_Witness ==
  /\ Baked
  /\ Flat(SourceDepth, SourceTexture)
  /\ bakingUniforms[bakingMaterialRef].uRenderMode = 1
  /\ bakedContent[bakedTextureRef].mode = 1
  /\ \E p, q \in Pixels : SourceImage[p] # SourceImage[q]
  /\ BakedPixels = SourceImage

\* C25: a blur-mode bake with blur intensity 0 writes the source colour at
\* every texel, for any colour image, depth map and blur offset.
C25_ZeroIntensityBakesSource ==
  (/\ Baked
   /\ bakedContent[bakedTextureRef].mode = 0
   /\ bakedContent[bakedTextureRef].intensity = 0)
    => BakedPixels = SourceImage

\* a blur-mode bake with intensity 0 and a one-sided offset, over a depth map
\* with an edge steep enough to enter the blur branch
C25_Witness ==
  /\ Baked
  /\ bakedContent[bakedTextureRef].mode = 0
  /\ bakedContent[bakedTextureRef].intensity = 0
  /\ bakedContent[bakedTextureRef].offset = -1
  /\ \E p \in Pixels : Gradient(SourceDepth, SourceTexture, p[1], p[2]) > 100
  /\ \E p, q \in Pixels : SourceImage[p] # SourceImage[q]
  /\ BakedPixels = SourceImage

\* C26: when the depth image has the same red value v at every pixel, the
\* export gives every vertex of the cloned geometry the z of the live
\* geometry plus v / 255 * depthMultiplier (in thousandths), whatever the
\* number of segments and the size of the depth image.
C26_UniformDepthDisplacement ==
  [][(exp.pc = "awaitDepth" /\ exp'.cloneZ # <<>>
      /\ \A p \in DOMAIN exp.depthMap.data :
           exp.depthMap.data[p] = exp.depthMap.data[<<1, 1>>])
       => exp'.cloneZ =
            [vtx \in Vertices(meshes[exp.mesh].seg) |->
               1000 * meshes[exp.mesh].z
                 + (exp.depthMap.data[<<1, 1>>] * exp.depthMultiplier * 1000) \div 255]
    ]_vars

\* an export that displaced the nine vertices of a 2 x 2-segment plane from
\* a 3 x 2 depth image of value 2 with depth multiplier 5
C26_Witness ==
  /\ exp.result = "resolved"
  /\ exp.depthMap = UniformImage(3, 2, 2)
  /\ exp.depthMultiplier = 5
  /\ DOMAIN exp.cloneZ = Vertices(2)
  /\ \A vtx \in Vertices(2) : exp.cloneZ[vtx] = 39

\* C27: with a mesh present, every orientation reading delivered to the
\* handler, a reading of 0 included, leaves a reference captured (the reading
\* itself when none was held, the held one otherwise) and sets rotation.x and
\* rotation.y to the clamped radians of -0.5 times the reading's offset from
\* that reference.
C27_EveryReadingSetsRotation ==
  [][\A rd \in TiltReadings :
       (handleDeviceOrientation(rd[1], rd[2]) /\ meshRef # None)
         => /\ initialOrientationRef' =
                 (IF initialOrientationRef.null
                    THEN [null |-> FALSE, beta |-> rd[1], gamma |-> rd[2]]
                    ELSE initialOrientationRef)
            /\ meshes'[meshRef].rotX =
                 clamp(degToRad(-(rd[1] - initialOrientationRef'.beta)),
                       -maxAngleRef, maxAngleRef)
            /\ meshes'[meshRef].rotY =
                 clamp(degToRad(-(rd[2] - initialOrientationRef'.gamma)),
                       -maxAngleRef, maxAngleRef)
    ]_vars

\* C28: the scene a completed load builds carries the parameter values that
\* are current when the load completes: the depth-multiplier uniform, the
\* segment count of the plane and the blur intensity, blur offset and
\* render-mode uniforms.
C28_LoadBuildsWithCurrentParams ==
  [][\A i \in 1..MaxInst :
       (LoadResolve(i) /\ ~LoadDiscarded(i))
         => /\ liveUniforms'[i].uDepthMultiplier = props.depthMultiplier
            /\ meshes'[i].seg = props.meshDetail
            /\ bakingUniforms'[i].uBlurIntensity = props.blurIntensity
            /\ bakingUniforms'[i].uBlurOffset = props.blurOffset
            /\ bakingUniforms'[i].uRenderMode = (IF props.renderMode = "fill" THEN 1 ELSE 0)
    ]_vars

\* C29: while a renderer is bound, an outstanding render request (the flag is
\* set, by a request that scheduled a callback or by one made while a callback
\* was pending) leads to a frame rendered from the state the callback finds,
\* or to the teardown of the renderer; a request never schedules a second
\* callback next to a pending one, and a callback that runs with no renderer
\* bound submits nothing and touches no resource.
C29_RequestLeadsToFrame ==
  /\ (renderRequestedRef /\ rendererRef # None)
       ~> ((submitted.op = "frame" /\ ~renderRequestedRef) \/ rendererRef = None)
  /\ [][/\ (renderRequestedRef /\ renderRequestedRef') => rafPending' = rafPending
        /\ (RafFire /\ rendererRef = None) => (submitted' = NoCmd /\ alloc' = alloc)
       ]_vars

\* a frame rendered the mesh after a depth edit and a drag whose requests
\* found the load's callback still pending
C29_Witness ==
  /\ Loaded
  /\ submitted.op = "frame"
  /\ Geom(meshRef, meshes[meshRef].geom) \in submitted.uses
  /\ ~renderRequestedRef
  /\ rafPending = 0
  /\ props.depthMultiplier # captured[meshRef].depthMultiplier
  /\ RotY # 0

\* C30: whenever the worker's pipeline is marked initialized, the cached
\* instance is a pipeline loaded for the recorded model name, whatever the
\* order of 'init' and 'generate' messages and of the completion of their
\* loads; and a 'result' is only ever posted by a 'generate' call.
C30_InitializedInstanceMatchesModel ==
  /\ worker.initialized
       => (worker.instance # NoPipeline /\ worker.instance.model = worker.model)
  /\ \A msg \in worker.posted :
       msg.type = "result" => worker.tasks[msg.task].type = "generate"

====
